---- MODULE Spec2Model ----
(***************************************************************************)
(* nezumi: a daemon that polls the battery of a mouse over HID and falls   *)
(* back to a udev watch when the mouse is gone.                            *)
(*   src/src/main.rs   configuration, open_first_mouse, process_udev_event *)
(*                     and the main loop                                   *)
(*   src/src/mouse.rs  get_mouse, the aerox9 drivers and the decoder       *)
(***************************************************************************)
EXTENDS Integers, Sequences, FiniteSets, TLC

VARIABLES
    pc,         \* position of main: "Start", "Locate", "Poll", "Watch", "Exit"
    rawConfig,  \* the configuration file as found on disk
    cfg,        \* mouse_config: the parsed profile table, in file order
    attached,   \* ids of the HID devices currently plugged in
    mouse,      \* the Box<dyn Mouse> held by the poll loop (NoMouse when none)
    monitor,    \* TRUE while an AsyncMonitorSocket exists
    queue,      \* items buffered in the monitor socket, oldest first
    sleep,      \* the pinned Sleep future: "unset", "zero", "interval", "fired"
    settled,    \* what the environment has promised to keep still from now on
    last,       \* name of the step taken last
    poll,       \* inputs and result of the battery() call of the last step
    handled,    \* the item the last step took from the monitor
    stdout,     \* lines written to standard output by the last step
    logged,     \* tracing records emitted by the last step
    exitErr,    \* the Error variant main returned with
    locIn,      \* arguments of a stand-alone open_first_mouse call
    locOut,     \* its result
    batIn,      \* arguments of a stand-alone Mouse::battery call
    batOut,     \* its result
    data,       \* argument of a stand-alone battery_status_from_response call
    decoded,    \* its result
    evIn,       \* arguments of a stand-alone process_udev_event call
    evOut       \* its result

vars == <<pc, rawConfig, cfg, attached, mouse, monitor, queue, sleep, settled,
          last, poll, handled, stdout, logged, exitErr,
          locIn, locOut, batIn, batOut, data, decoded, evIn, evOut>>

mainVars == <<pc, rawConfig, cfg, attached, mouse, monitor, queue, sleep,
              settled, last, poll, handled, stdout, logged, exitErr>>

callVars == <<locIn, locOut, batIn, batOut, data, decoded, evIn, evOut>>

(***************************************************************************)
(* Bounds of the model.                                                    *)
(***************************************************************************)
\* longest profile table read from a configuration file
MaxProfiles == 2
\* longest profile table handed to a stand-alone open_first_mouse call
MaxTable == 2
\* number of items the monitor socket buffers before the kernel drops events
MaxQueue == 1

(***************************************************************************)
(* u8 / u16 arithmetic.                                                    *)
(***************************************************************************)
RECURSIVE BitAnd(_, _)
BitAnd(a, b) ==
    IF a = 0 \/ b = 0 THEN 0
    ELSE (a % 2) * (b % 2) + 2 * BitAnd(a \div 2, b \div 2)

RECURSIVE BitOr(_, _)
BitOr(a, b) ==
    IF a = 0 THEN b
    ELSE IF b = 0 THEN a
    ELSE (IF a % 2 = 1 \/ b % 2 = 1 THEN 1 ELSE 0) + 2 * BitOr(a \div 2, b \div 2)

\* !x on a u8
BitNot8(x) == 255 - x

\* u16::checked_sub: None (-1) on underflow
CheckedSub(a, b) == IF a < b THEN -1 ELSE a - b

\* u16 multiplication as the release build computes it
MulU16(a, b) == (a * b) % 65536

(***************************************************************************)
(* mouse.rs: protocol constants and the decoder.                           *)
(***************************************************************************)
OP_BATTERY_REQUEST == 146
OP_BATTERY_RESPONSE_LEN == 2
FLAG_BATTERY_CHARGING == 128
FLAG_WIRELESS == 64

NoStatus == [some |-> FALSE, is_charging |-> FALSE, percent |-> 0]

SomeStatus(c, p) == [some |-> TRUE, is_charging |-> c, percent |-> p]

\* line 34 with every percent above 100 taken for "no data"
IsNoDataOver100(percent) == percent > 100

\* line 34: the one computed percent that stands for "no data"
IsNoData(percent) == percent = 630

\* fn battery_status_from_response(data: u8) -> Option<BatteryStatus>
battery_status_from_response(d) ==
    LET raw == CheckedSub(BitAnd(d, BitNot8(FLAG_BATTERY_CHARGING)), 1)
    IN  IF raw < 0 THEN NoStatus
        ELSE LET percent == MulU16(raw, 5)
             IN  IF IsNoData(percent) THEN NoStatus
                 ELSE SomeStatus(BitAnd(d, FLAG_BATTERY_CHARGING) # 0, percent)

(***************************************************************************)
(* mouse.rs: the driver registry and the two drivers.                      *)
(***************************************************************************)
WIRED == "steelseries_aerox_9_wired"
WIRELESS == "steelseries_aerox_9_wireless"
SupportedModels == {WIRED, WIRELESS}

\* get_mouse: Ok for the two names of the match, GetMouseError otherwise
get_mouse(model) ==
    IF model = WIRED \/ model = WIRELESS
    THEN [ok |-> TRUE, variant |-> model]
    ELSE [ok |-> FALSE, variant |-> model]

\* the request each driver writes: report id 0, then the opcode
Request(variant) ==
    IF variant = WIRELESS
    THEN <<0, BitOr(OP_BATTERY_REQUEST, FLAG_WIRELESS)>>
    ELSE <<0, OP_BATTERY_REQUEST>>

(* HidDevice::read_timeout fills at most OP_BATTERY_RESPONSE_LEN bytes of   *)
(* the zeroed buffer and returns how many it filled; a read on which the    *)
(* timeout elapses returns Ok(0) and leaves the buffer as it was.           *)
Response(r) ==
    [i \in 1..OP_BATTERY_RESPONSE_LEN |-> IF i <= r.n THEN r.bytes[i] ELSE 0]

WriteOutcomes == {"ok", "err"}

ReadErr == [kind |-> "err", n |-> 0, bytes |-> <<0, 0>>]
ReadTimeout == [kind |-> "ok", n |-> 0, bytes |-> <<0, 0>>]
ReadOk(n, b) == [kind |-> "ok", n |-> n, bytes |-> <<0, b>>]

BatteryResult(kind, err, st, req, didRead, didDecode) ==
    [kind |-> kind, err |-> err, status |-> st, request |-> req,
     didRead |-> didRead, didDecode |-> didDecode]

\* battery() with the result of the write dropped instead of returned by `?`
battery_reading_after_failed_write(variant, w, r) ==
    IF r.kind = "err"
    THEN BatteryResult("Err", "read", NoStatus, Request(variant), TRUE, FALSE)
    ELSE BatteryResult("Ok", "", battery_status_from_response(Response(r)[2]),
                       Request(variant), TRUE, TRUE)

\* Mouse::battery of aerox9::Wired and aerox9::Wireless
battery(variant, w, r) ==
    IF w = "err"
    THEN BatteryResult("Err", "write", NoStatus, Request(variant), FALSE, FALSE)
    ELSE IF r.kind = "err"
    THEN BatteryResult("Err", "read", NoStatus, Request(variant), TRUE, FALSE)
    ELSE BatteryResult("Ok", "", battery_status_from_response(Response(r)[2]),
                       Request(variant), TRUE, TRUE)

(***************************************************************************)
(* main.rs: hex-encoded identifiers (deserialize_id, <[u8; 2]>::from_hex). *)
(***************************************************************************)
\* value of one hex digit, -1 for any other character
HexVal(c) ==
    CASE c = "0" -> 0  [] c = "1" -> 1  [] c = "2" -> 2  [] c = "3" -> 3
      [] c = "4" -> 4  [] c = "5" -> 5  [] c = "6" -> 6  [] c = "7" -> 7
      [] c = "8" -> 8  [] c = "9" -> 9
      [] c = "a" -> 10 [] c = "b" -> 11 [] c = "c" -> 12 [] c = "d" -> 13
      [] c = "e" -> 14 [] c = "f" -> 15
      [] c = "A" -> 10 [] c = "B" -> 11 [] c = "C" -> 12 [] c = "D" -> 13
      [] c = "E" -> 14 [] c = "F" -> 15
      [] OTHER -> -1

\* <[u8; 2]>::from_hex: exactly four hex digits, two per byte
FromHex2(s) ==
    IF Len(s) # 4 \/ \E i \in 1..Len(s) : HexVal(s[i]) < 0
    THEN [ok |-> FALSE, bytes |-> <<0, 0>>]
    ELSE [ok |-> TRUE,
          bytes |-> <<16 * HexVal(s[1]) + HexVal(s[2]),
                      16 * HexVal(s[3]) + HexVal(s[4])>>]

\* u16::from_be_bytes
FromBeBytes(bytes) == bytes[1] * 256 + bytes[2]

\* fn deserialize_id: a hex string of two bytes, read big-endian
deserialize_id(s) ==
    LET h == FromHex2(s)
    IN  [ok |-> h.ok, id |-> IF h.ok THEN FromBeBytes(h.bytes) ELSE 0]

\* struct MouseProfile with the table key it is stored under
Profile(name, model, vendor, product, endpoint) ==
    [name |-> name, model |-> model, vendor |-> vendor, product |-> product,
     endpoint |-> endpoint]

\* one table entry, with the model checked against the registry on load
ParseProfileKnownModel(raw) ==
    LET v == deserialize_id(raw.vendor)
        p == deserialize_id(raw.product)
    IN  [ok |-> v.ok /\ p.ok /\ raw.model \in SupportedModels,
         profile |-> Profile(raw.name, raw.model, v.id, p.id, raw.endpoint)]

\* serde's deserialisation of one table entry; the model is any string
ParseProfile(raw) ==
    LET v == deserialize_id(raw.vendor)
        p == deserialize_id(raw.product)
    IN  [ok |-> v.ok /\ p.ok,
         profile |-> Profile(raw.name, raw.model, v.id, p.id, raw.endpoint)]

\* toml::from_slice into the LinkedHashMap: entries keep the file's order
ParseConfig(entries) ==
    [ok |-> \A i \in 1..Len(entries) : ParseProfile(entries[i]).ok,
     table |-> [i \in 1..Len(entries) |-> ParseProfile(entries[i]).profile]]

(***************************************************************************)
(* The HID devices of the environment, as hid_api.device_list() shows them.*)
(***************************************************************************)
DeviceIds == {1, 2, 3}

DeviceInfo(d) ==
    CASE d = 1 -> [id |-> 1, vendor |-> 4152, product |-> 6198, iface |-> 1]
      [] d = 2 -> [id |-> 2, vendor |-> 4152, product |-> 6198, iface |-> 0]
      [] OTHER -> [id |-> 3, vendor |-> 4152, product |-> 6202, iface |-> 3]

\* the enumeration HidApi::new() takes: the attached devices, by id
RECURSIVE device_list_from(_, _)
device_list_from(present, d) ==
    IF d > 3 THEN <<>>
    ELSE (IF d \in present THEN <<DeviceInfo(d)>> ELSE <<>>)
         \o device_list_from(present, d + 1)

device_list(present) == device_list_from(present, 1)

(***************************************************************************)
(* main.rs: open_first_mouse.                                              *)
(***************************************************************************)
\* one tracing record: level, message and what the message is about
Log(level, msg, about) == [level |-> level, msg |-> msg, about |-> about]

NoMouse == [dev |-> 0, variant |-> "", name |-> "", alive |-> FALSE]

\* the test of lines 58-60 without its interface comparison
MatchesIgnoringInterface(cur_device, profile) ==
    /\ cur_device.vendor = profile.vendor
    /\ cur_device.product = profile.product

\* lines 58-60: vendor, product and interface number all agree
Matches(cur_device, profile) ==
    /\ cur_device.vendor = profile.vendor
    /\ cur_device.product = profile.product
    /\ cur_device.iface = profile.endpoint

\* the inner for loop: index of the first enumerated device the profile
\* matches, 0 when the loop runs to its end
FirstMatch(profile, devs) ==
    IF \E j \in 1..Len(devs) : Matches(devs[j], profile)
    THEN CHOOSE j \in 1..Len(devs) :
            /\ Matches(devs[j], profile)
            /\ \A k \in 1..(j - 1) : ~Matches(devs[k], profile)
    ELSE 0

LocateStart ==
    [kind |-> "Scanning", mouse |-> NoMouse, model |-> "", opens |-> <<>>,
     scanned |-> <<>>, held |-> 0, log |-> <<>>]

\* line 70: mouse.ok_or(OpenFirstMouseError::NotFound)
OkOr(acc) ==
    [acc EXCEPT !.kind = IF acc.mouse = NoMouse THEN "NotFound" ELSE "Ok"]

\* the outer for loop with a failed open_device passed over: the scan goes on
\* with the next profile
RECURSIVE ScanProfilesPastFailedOpen(_, _, _, _, _)
ScanProfilesPastFailedOpen(mice, devs, canOpen, i, acc) ==
    IF i > Len(mice) THEN OkOr(acc)
    ELSE LET profile == mice[i]
             j == FirstMatch(profile, devs)
             acc1 == [acc EXCEPT !.scanned = Append(@, profile.name)]
             before == IF acc.mouse = NoMouse THEN 0 ELSE 1
         IN  IF j = 0
             THEN ScanProfilesPastFailedOpen(mice, devs, canOpen, i + 1, acc1)
             ELSE LET acc2 == [acc1 EXCEPT !.log = Append(@, Log("info", "Found", profile.name)),
                                           !.opens = Append(@, devs[j].id)]
                      made == get_mouse(profile.model)
                  IN  IF devs[j].id \notin canOpen
                      THEN ScanProfilesPastFailedOpen(mice, devs, canOpen, i + 1, acc2)
                      ELSE IF ~made.ok
                      THEN [acc2 EXCEPT !.kind = "WrapMouse", !.mouse = NoMouse,
                                        !.model = profile.model,
                                        !.held = IF before + 1 > @
                                                 THEN before + 1 ELSE @]
                      ELSE ScanProfilesPastFailedOpen(mice, devs, canOpen, i + 1,
                             [acc2 EXCEPT
                                !.mouse = [dev |-> devs[j].id,
                                           variant |-> made.variant,
                                           name |-> profile.name,
                                           alive |-> TRUE],
                                !.held = IF before + 1 > @
                                         THEN before + 1 ELSE @])

(* The outer for loop, lines 56-69.  `break` leaves the inner loop only, so *)
(* the scan goes on with the next profile; `?` returns at once.  A new      *)
(* mouse is built before the one it replaces is dropped.                    *)
RECURSIVE ScanProfiles(_, _, _, _, _)
ScanProfiles(mice, devs, canOpen, i, acc) ==
    IF i > Len(mice) THEN OkOr(acc)
    ELSE LET profile == mice[i]
             j == FirstMatch(profile, devs)
             acc1 == [acc EXCEPT !.scanned = Append(@, profile.name)]
             before == IF acc.mouse = NoMouse THEN 0 ELSE 1
         IN  IF j = 0 THEN ScanProfiles(mice, devs, canOpen, i + 1, acc1)
             ELSE LET acc2 == [acc1 EXCEPT !.log = Append(@, Log("info", "Found", profile.name)),
                                           !.opens = Append(@, devs[j].id)]
                      made == get_mouse(profile.model)
                  IN  IF devs[j].id \notin canOpen
                      THEN [acc2 EXCEPT !.kind = "OpenMouse", !.mouse = NoMouse]
                      ELSE IF ~made.ok
                      THEN [acc2 EXCEPT !.kind = "WrapMouse", !.mouse = NoMouse,
                                        !.model = profile.model,
                                        !.held = IF before + 1 > @
                                                 THEN before + 1 ELSE @]
                      ELSE ScanProfiles(mice, devs, canOpen, i + 1,
                             [acc2 EXCEPT
                                !.mouse = [dev |-> devs[j].id,
                                           variant |-> made.variant,
                                           name |-> profile.name,
                                           alive |-> TRUE],
                                !.held = IF before + 1 > @
                                         THEN before + 1 ELSE @])

\* fn open_first_mouse(hid_api, mice): canOpen are the devices on which
\* open_device succeeds
open_first_mouse(mice, devs, canOpen) ==
    ScanProfiles(mice, devs, canOpen, 1, LocateStart)

(***************************************************************************)
(* main.rs: process_udev_event.                                            *)
(***************************************************************************)
AttrMissing == [kind |-> "missing", s |-> <<>>]
AttrNotUtf8 == [kind |-> "nonutf8", s |-> <<>>]
AttrStr(s) == [kind |-> "str", s |-> s]

UdevEvent(type, idVendor, idProduct) ==
    [type |-> type, idVendor |-> idVendor, idProduct |-> idProduct]

EventResult(ok, relevant, err, log) ==
    [ok |-> ok, relevant |-> relevant, err |-> err, log |-> log]

\* lines 104-109 with the product comparison left out
AnyProfileHasVendor(mice, vendor_id, product_id) ==
    \E i \in 1..Len(mice) : mice[i].vendor = vendor_id

\* lines 104-109: the first profile with the event's vendor and product
AnyProfileHas(mice, vendor_id, product_id) ==
    \E i \in 1..Len(mice) :
        mice[i].vendor = vendor_id /\ mice[i].product = product_id

\* an attribute read with a default: absent or unreadable counts as id 0
IdOrZero(attr) ==
    IF attr.kind = "str" /\ FromHex2(attr.s).ok
    THEN FromBeBytes(FromHex2(attr.s).bytes) ELSE 0

\* process_udev_event with defaults in place of the four `?`
process_udev_event_defaulting(event, mice) ==
    IF event.type # "bind" THEN EventResult(TRUE, FALSE, "", <<>>)
    ELSE IF AnyProfileHas(mice, IdOrZero(event.idVendor), IdOrZero(event.idProduct))
    THEN EventResult(TRUE, TRUE, "",
                     <<Log("info", "Device has been connected", "")>>)
    ELSE EventResult(TRUE, FALSE, "", <<>>)

\* process_udev_event with the attributes read before the event type is
\* looked at
process_udev_event_attributes_first(event, mice) ==
    IF event.idVendor.kind = "missing"
    THEN EventResult(FALSE, FALSE, "MissingVendor", <<>>)
    ELSE IF event.idVendor.kind = "nonutf8" \/ ~FromHex2(event.idVendor.s).ok
    THEN EventResult(FALSE, FALSE, "InvalidVendor", <<>>)
    ELSE IF event.idProduct.kind = "missing"
    THEN EventResult(FALSE, FALSE, "MissingProduct", <<>>)
    ELSE IF event.idProduct.kind = "nonutf8" \/ ~FromHex2(event.idProduct.s).ok
    THEN EventResult(FALSE, FALSE, "InvalidProduct", <<>>)
    ELSE IF event.type = "bind"
            /\ AnyProfileHas(mice, FromBeBytes(FromHex2(event.idVendor.s).bytes),
                             FromBeBytes(FromHex2(event.idProduct.s).bytes))
    THEN EventResult(TRUE, TRUE, "",
                     <<Log("info", "Device has been connected", "")>>)
    ELSE EventResult(TRUE, FALSE, "", <<>>)

\* fn process_udev_event(event, mice) -> Result<bool, UdevEventError>
process_udev_event(event, mice) ==
    IF event.type # "bind" THEN EventResult(TRUE, FALSE, "", <<>>)
    ELSE IF event.idVendor.kind = "missing"
    THEN EventResult(FALSE, FALSE, "MissingVendor", <<>>)
    ELSE IF event.idVendor.kind = "nonutf8" \/ ~FromHex2(event.idVendor.s).ok
    THEN EventResult(FALSE, FALSE, "InvalidVendor", <<>>)
    ELSE IF event.idProduct.kind = "missing"
    THEN EventResult(FALSE, FALSE, "MissingProduct", <<>>)
    ELSE IF event.idProduct.kind = "nonutf8" \/ ~FromHex2(event.idProduct.s).ok
    THEN EventResult(FALSE, FALSE, "InvalidProduct", <<>>)
    ELSE LET vendor_id == FromBeBytes(FromHex2(event.idVendor.s).bytes)
             product_id == FromBeBytes(FromHex2(event.idProduct.s).bytes)
         IN  IF AnyProfileHas(mice, vendor_id, product_id)
             THEN EventResult(TRUE, TRUE, "",
                               <<Log("info", "Device has been connected", "")>>)
             ELSE EventResult(TRUE, FALSE, "", <<>>)

(***************************************************************************)
(* The udev side of the environment.                                       *)
(***************************************************************************)
HexDigit(n) ==
    CASE n = 0 -> "0" [] n = 1 -> "1" [] n = 2 -> "2" [] n = 3 -> "3"
      [] n = 4 -> "4" [] n = 5 -> "5" [] n = 6 -> "6" [] n = 7 -> "7"
      [] n = 8 -> "8" [] n = 9 -> "9" [] n = 10 -> "a" [] n = 11 -> "b"
      [] n = 12 -> "c" [] n = 13 -> "d" [] n = 14 -> "e" [] OTHER -> "f"

\* sysfs prints idVendor and idProduct as four lower-case hex digits
SysfsId(n) ==
    <<HexDigit(n \div 4096), HexDigit((n \div 256) % 16),
      HexDigit((n \div 16) % 16), HexDigit(n % 16)>>

StreamOk(event) == [ok |-> TRUE, event |-> event]
StreamErr == [ok |-> FALSE, event |-> UdevEvent("", AttrMissing, AttrMissing)]
NoItem == [ok |-> FALSE, event |-> UdevEvent("none", AttrMissing, AttrMissing)]

\* the item the monitor yields when device d is bound
BindOf(d) ==
    StreamOk(UdevEvent("bind", AttrStr(SysfsId(DeviceInfo(d).vendor)),
                       AttrStr(SysfsId(DeviceInfo(d).product))))

\* items the monitor yields for reasons other than one of the devices above
OtherItems ==
    { StreamErr,
      StreamOk(UdevEvent("add", AttrStr(<<"1", "0", "3", "8">>),
                         AttrStr(<<"1", "8", "3", "6">>))),
      StreamOk(UdevEvent("bind", AttrStr(<<"0", "4", "6", "d">>),
                         AttrStr(<<"c", "5", "2", "b">>))),
      StreamOk(UdevEvent("unbind", AttrMissing, AttrStr(<<"1", "8", "g", "6">>))),
      StreamOk(UdevEvent("bind", AttrMissing, AttrStr(<<"1", "8", "3", "6">>))),
      StreamOk(UdevEvent("bind", AttrStr(<<"1", "0", "3", "8">>),
                         AttrStr(<<"1", "8", "g", "6">>))) }

(***************************************************************************)
(* The configuration files and device reports the main loop is run on.     *)
(***************************************************************************)
RawProfile(name, model, vendor, product, endpoint) ==
    [name |-> name, model |-> model, vendor |-> vendor, product |-> product,
     endpoint |-> endpoint]

RawProfiles ==
    { RawProfile("aerox", WIRED, <<"1", "0", "3", "8">>, <<"1", "8", "3", "6">>, 0),
      RawProfile("dongle", WIRELESS, <<"1", "0", "3", "8">>, <<"1", "8", "3", "A">>, 3),
      RawProfile("rival", "steelseries_rival_3", <<"1", "0", "3", "8">>,
                 <<"1", "8", "3", "6">>, 1),
      RawProfile("typo", WIRED, <<"1", "0", "g", "8">>, <<"1", "8", "3", "6">>, 0) }

\* tables of distinct keys, at most n entries long
RECURSIVE TablesOver(_, _)
TablesOver(entries, n) ==
    IF n = 0 THEN {<<>>}
    ELSE LET shorter == TablesOver(entries, n - 1)
         IN  shorter \cup
             { Append(t, e) : t \in { u \in shorter : Len(u) = n - 1 },
                              e \in entries }

DistinctKeys(t) == \A i, j \in 1..Len(t) : i # j => t[i].name # t[j].name

ConfigFiles ==
    { [readable |-> FALSE, entries |-> <<>>] } \cup
    { [readable |-> TRUE, entries |-> t] :
        t \in { u \in TablesOver(RawProfiles, MaxProfiles) : DistinctKeys(u) } }

\* second bytes of the reports the devices answer with
ReportBytes == {0, 14, 150, 255}

Reads == {ReadErr, ReadTimeout} \cup { ReadOk(2, b) : b \in ReportBytes }

NoPoll ==
    [called |-> FALSE, w |-> "", r |-> ReadErr,
     res |-> BatteryResult("", "", NoStatus, <<>>, FALSE, FALSE)]

Unsettled == [mode |-> "no", dev |-> 0]

(***************************************************************************)
(* main.rs: fn main.  One action per stretch of code between two points at *)
(* which the devices of the environment may change.                        *)
(***************************************************************************)
BlankLine == [blank |-> TRUE, is_charging |-> FALSE, percent |-> 0]

\* lines 160-164 with the charging glyph never printed
StatusLineNoGlyph(st) ==
    [blank |-> FALSE, is_charging |-> FALSE, percent |-> st.percent]

\* lines 160-164: the status line of a reading
StatusLine(st) ==
    [blank |-> FALSE, is_charging |-> st.is_charging, percent |-> st.percent]

\* main returns Err: every local is dropped
Exit(err) ==
    /\ pc' = "Exit"
    /\ exitErr' = err
    /\ mouse' = NoMouse
    /\ monitor' = FALSE
    /\ queue' = <<>>

\* lines 178-185 with the error returned from main instead of logged
OutOfMain(log) ==
    /\ pc' = "Exit"
    /\ mouse' = NoMouse
    /\ stdout' = <<>>
    /\ logged' = log

\* lines 182-185 without the println!() of line 183
IntoWatchNoBlank(log) ==
    /\ pc' = "Watch"
    /\ mouse' = NoMouse
    /\ stdout' = <<>>
    /\ logged' = Append(log, Log("info", "Using udev to wait until our mouse appears", ""))

\* lines 182-185: what every path into the udev wait prints and logs
IntoWatch(log) ==
    /\ pc' = "Watch"
    /\ mouse' = NoMouse
    /\ stdout' = <<BlankLine>>
    /\ logged' = Append(log, Log("info", "Using udev to wait until our mouse appears", ""))

\* lines 130-145: read and parse the configuration, create the sleep
LoadConfig ==
    /\ pc = "Start"
    /\ last' = "LoadConfig"
    /\ poll' = NoPoll
    /\ handled' = NoItem
    /\ stdout' = <<>>
    /\ logged' = <<>>
    /\ IF ~rawConfig.readable
       THEN Exit("OpenConfig") /\ UNCHANGED <<cfg, sleep>>
       ELSE LET parsed == ParseConfig(rawConfig.entries)
            IN  IF ~parsed.ok
                THEN Exit("ParseConfig") /\ UNCHANGED <<cfg, sleep>>
                ELSE /\ cfg' = parsed.table
                     /\ sleep' = "zero"
                     /\ pc' = "Locate"
                     /\ UNCHANGED <<mouse, monitor, queue, exitErr>>
    /\ UNCHANGED <<rawConfig, attached, settled>>
    /\ UNCHANGED callVars

\* what the environment lets HidApi::new and open_device do
LocateInputs(initOk, canOpen) ==
    /\ settled.mode # "no" => initOk
    /\ settled.mode = "device" /\ settled.dev \in attached => settled.dev \in canOpen
    /\ settled.mode = "all" => canOpen = attached

\* lines 147-185: HidApi::new, open_first_mouse and the match on its result
Locate ==
    /\ pc = "Locate"
    /\ last' = "Locate"
    /\ poll' = NoPoll
    /\ handled' = NoItem
    /\ \E initOk \in BOOLEAN, canOpen \in SUBSET attached :
        /\ LocateInputs(initOk, canOpen)
        /\ IF ~initOk
           THEN /\ Exit("InitializeHidApi")
                /\ stdout' = <<>>
                /\ logged' = <<>>
           ELSE LET r == open_first_mouse(cfg, device_list(attached), canOpen)
                IN  IF r.kind = "Ok"
                    THEN /\ pc' = "Poll"
                         /\ mouse' = r.mouse
                         /\ stdout' = <<>>
                         /\ logged' = r.log
                         /\ UNCHANGED <<monitor, queue, exitErr>>
                    ELSE /\ IntoWatch(Append(r.log,
                                Log("error", "Error opening first mouse", r.kind)))
                         /\ UNCHANGED <<monitor, queue, exitErr>>
    /\ UNCHANGED <<rawConfig, cfg, attached, sleep, settled>>
    /\ UNCHANGED callVars

\* what the device lets write and read_timeout do
PollInputs(w, r) ==
    /\ ~mouse.alive => w = "err"
    /\ (mouse.alive /\ (settled.mode = "all"
                       \/ (settled.mode = "device" /\ settled.dev = mouse.dev)))
         => /\ w = "ok"
            /\ r.kind = "ok"
            /\ r.n = OP_BATTERY_RESPONSE_LEN
            /\ battery_status_from_response(r.bytes[2]).some

\* lines 167-170 without the break
PollEndsNever(res) == FALSE

\* lines 166-170 with the break in the Ok(None) arm as well
PollEndsOnAbsent(res) == res.kind = "Err" \/ ~res.status.some

\* lines 167-170: Err breaks out of the poll loop
PollEnds(res) == res.kind = "Err"

\* lines 155-175: the sleep completes, battery() is called, its result matched
PollTick ==
    /\ pc = "Poll"
    /\ last' = "PollTick"
    /\ handled' = NoItem
    /\ \E w \in WriteOutcomes, r \in Reads :
        /\ PollInputs(w, r)
        /\ LET res == battery(mouse.variant, w, r)
           IN  /\ poll' = [called |-> TRUE, w |-> w, r |-> r, res |-> res]
               /\ IF PollEnds(res)
                  THEN /\ IntoWatch(<<Log("error", "Error reading battery status",
                                          res.err)>>)
                       /\ sleep' = "fired"
                  ELSE /\ pc' = "Poll"
                       /\ mouse' = mouse
                       /\ sleep' = "interval"
                       /\ IF res.status.some
                          THEN /\ stdout' = <<StatusLine(res.status)>>
                               /\ logged' = <<>>
                          ELSE /\ stdout' = <<>>
                               /\ logged' = <<Log("warn",
                                     "Error in response, will try again", "")>>
    /\ UNCHANGED <<rawConfig, cfg, attached, monitor, queue, settled, exitErr>>
    /\ UNCHANGED callVars

\* lines 186-195: build the monitor, then re-arm the sleep
WatchSubscribe ==
    /\ pc = "Watch"
    /\ ~monitor
    /\ last' = "WatchSubscribe"
    /\ poll' = NoPoll
    /\ handled' = NoItem
    /\ stdout' = <<>>
    /\ logged' = <<>>
    /\ \/ /\ monitor' = TRUE
          /\ queue' = <<>>
          /\ sleep' = "interval"
          /\ UNCHANGED <<pc, mouse, exitErr>>
       \/ /\ settled.mode = "no"
          /\ \E err \in {"UdevBuildMonitor", "UdevListen", "UdevAsync"} : Exit(err)
          /\ UNCHANGED sleep
    /\ UNCHANGED <<rawConfig, cfg, attached, settled>>
    /\ UNCHANGED callVars

\* the end of a loop iteration with the monitor kept across iterations
EndWatchKeepingMonitor(next) ==
    /\ pc' = next
    /\ UNCHANGED <<monitor, queue>>

\* the end of a loop iteration: monitor and hid_api are dropped
EndWatch(next) ==
    /\ pc' = next
    /\ monitor' = FALSE
    /\ queue' = <<>>

\* lines 197-200 with a sleep that is re-armed in place
AfterTimeoutStay == "Watch"

\* lines 197-200: the sleep branch yields None, which ends the while let
AfterTimeout == "Locate"

\* lines 197-199: the sleep completes before the monitor yields an item
WatchTimeout ==
    /\ pc = "Watch"
    /\ monitor
    /\ last' = "WatchTimeout"
    /\ poll' = NoPoll
    /\ handled' = NoItem
    /\ stdout' = <<>>
    /\ logged' = <<>>
    /\ IF AfterTimeout = "Watch"
       THEN sleep' = "interval" /\ UNCHANGED <<pc, monitor, queue>>
       ELSE sleep' = "fired" /\ EndWatch(AfterTimeout)
    /\ UNCHANGED <<rawConfig, cfg, attached, mouse, settled, exitErr>>
    /\ UNCHANGED callVars

\* lines 197-210: the monitor yields an item
WatchEvent ==
    /\ pc = "Watch"
    /\ monitor
    /\ queue # <<>>
    /\ last' = "WatchEvent"
    /\ poll' = NoPoll
    /\ handled' = Head(queue)
    /\ stdout' = <<>>
    /\ LET item == Head(queue)
           r == process_udev_event(item.event, cfg)
       IN  IF ~item.ok
           THEN /\ logged' = <<Log("error", "Error processing udev event", "")>>
                /\ queue' = Tail(queue)
                /\ UNCHANGED <<pc, monitor>>
           ELSE IF ~r.ok
           THEN /\ logged' = <<Log("error", "Unexpected error handling udev event",
                                   r.err)>>
                /\ queue' = Tail(queue)
                /\ UNCHANGED <<pc, monitor>>
           ELSE IF r.relevant
           THEN /\ logged' = r.log
                /\ EndWatch("Locate")
           ELSE /\ logged' = <<>>
                /\ queue' = Tail(queue)
                /\ UNCHANGED <<pc, monitor>>
    /\ UNCHANGED <<rawConfig, cfg, attached, mouse, sleep, settled, exitErr>>
    /\ UNCHANGED callVars

(***************************************************************************)
(* The environment of the main loop.                                       *)
(***************************************************************************)
Running == pc \in {"Locate", "Poll", "Watch"}

progVars == <<pc, rawConfig, cfg, monitor, sleep, last, poll, handled, stdout,
              logged, exitErr>>

\* a device is plugged in; a listening monitor is told, if it has room
Attach(d) ==
    /\ Running
    /\ settled.mode # "all"
    /\ d \notin attached
    /\ attached' = attached \cup {d}
    /\ queue' = IF monitor /\ Len(queue) < MaxQueue
                THEN Append(queue, BindOf(d)) ELSE queue
    /\ UNCHANGED <<progVars, mouse, settled>>
    /\ UNCHANGED callVars

\* a device is unplugged; a handle open on it is dead from then on
Detach(d) ==
    /\ Running
    /\ settled.mode # "all"
    /\ ~(settled.mode = "device" /\ settled.dev = d)
    /\ d \in attached
    /\ attached' = attached \ {d}
    /\ mouse' = IF mouse.dev = d THEN [mouse EXCEPT !.alive = FALSE] ELSE mouse
    /\ UNCHANGED <<progVars, queue, settled>>
    /\ UNCHANGED callVars

\* the monitor receives something else
OtherEvent(item) ==
    /\ Running
    /\ monitor
    /\ Len(queue) < MaxQueue
    /\ queue' = Append(queue, item)
    /\ UNCHANGED <<progVars, attached, mouse, settled>>
    /\ UNCHANGED callVars

HasSupportedProfile(d) ==
    \E i \in 1..Len(cfg) :
        Matches(DeviceInfo(d), cfg[i]) /\ cfg[i].model \in SupportedModels

\* from now on device d stays attached, opens and answers with a reading
PinDevice(d) ==
    /\ Running
    /\ settled.mode = "no"
    /\ d \in attached
    /\ HasSupportedProfile(d)
    /\ settled' = [mode |-> "device", dev |-> d]
    /\ UNCHANGED <<progVars, attached, mouse, queue>>
    /\ UNCHANGED callVars

\* from now on no device comes or goes, and every device a profile matches
\* has a supported model, opens and answers with a reading
SettleAll ==
    /\ Running
    /\ settled.mode = "no"
    /\ \E i \in 1..Len(cfg) : FirstMatch(cfg[i], device_list(attached)) # 0
    /\ \A i \in 1..Len(cfg) :
          FirstMatch(cfg[i], device_list(attached)) # 0
              => cfg[i].model \in SupportedModels
    /\ settled' = [mode |-> "all", dev |-> 0]
    /\ UNCHANGED <<progVars, attached, mouse, queue>>
    /\ UNCHANGED callVars

(***************************************************************************)
(* The daemon and its environment.                                         *)
(***************************************************************************)
NoLocIn == [table |-> <<>>, present |-> {}, canOpen |-> {}]
NoBatIn == [variant |-> "", w |-> "", r |-> ReadErr]
NoBatOut == BatteryResult("", "", NoStatus, <<>>, FALSE, FALSE)
NotDecoded == [done |-> FALSE, status |-> NoStatus]

LocIdle == locIn = NoLocIn /\ locOut = LocateStart
BatIdle == batIn = NoBatIn /\ batOut = NoBatOut
DecIdle == data = 0 /\ decoded = NotDecoded

NoEvIn ==
    [event |-> UdevEvent("", AttrMissing, AttrMissing), table |-> <<>>,
     vendor |-> -1, product |-> -1]
NoEvOut == EventResult(FALSE, FALSE, "pending", <<>>)
EvIdle == evIn = NoEvIn /\ evOut = NoEvOut

MainIdle ==
    /\ pc = "Idle"
    /\ rawConfig = [readable |-> FALSE, entries |-> <<>>]
    /\ cfg = <<>>
    /\ attached = {}
    /\ mouse = NoMouse
    /\ monitor = FALSE
    /\ queue = <<>>
    /\ sleep = "unset"
    /\ settled = Unsettled
    /\ last = "Init"
    /\ poll = NoPoll
    /\ handled = NoItem
    /\ stdout = <<>>
    /\ logged = <<>>
    /\ exitErr = ""

Init ==
    /\ pc = "Start"
    /\ rawConfig \in ConfigFiles
    /\ cfg = <<>>
    /\ attached \in SUBSET DeviceIds
    /\ mouse = NoMouse
    /\ monitor = FALSE
    /\ queue = <<>>
    /\ sleep = "unset"
    /\ settled = Unsettled
    /\ last = "Init"
    /\ poll = NoPoll
    /\ handled = NoItem
    /\ stdout = <<>>
    /\ logged = <<>>
    /\ exitErr = ""
    /\ LocIdle /\ BatIdle /\ DecIdle /\ EvIdle

Next ==
    \/ LoadConfig
    \/ Locate
    \/ PollTick
    \/ WatchSubscribe
    \/ WatchTimeout
    \/ WatchEvent
    \/ \E d \in DeviceIds : Attach(d)
    \/ \E d \in DeviceIds : Detach(d)
    \/ \E item \in OtherItems : OtherEvent(item)
    \/ \E d \in DeviceIds : PinDevice(d)
    \/ SettleAll

Spec == Init /\ [][Next]_vars

(* The runtime polls the task whenever a timer or the monitor is ready, so  *)
(* no step of main that stays possible is put off for ever.                 *)
FairSpec ==
    /\ Spec
    /\ WF_vars(LoadConfig)
    /\ WF_vars(Locate)
    /\ WF_vars(PollTick)
    /\ WF_vars(WatchSubscribe)
    /\ WF_vars(WatchTimeout)
    /\ WF_vars(WatchEvent)

(***************************************************************************)
(* open_first_mouse on its own: every table, enumeration and set of        *)
(* devices that can be opened.                                             *)
(***************************************************************************)
ProfileNames == {"A", "B", "C"}
ProfileModels == {WIRED, WIRELESS, "steelseries_rival_3"}

LocProfiles ==
    { Profile(n, m, DeviceInfo(d).vendor, DeviceInfo(d).product, DeviceInfo(d).iface) :
        n \in ProfileNames, m \in ProfileModels, d \in DeviceIds }

LocTables ==
    { t \in TablesOver(LocProfiles, MaxTable) : Len(t) > 0 /\ DistinctKeys(t) }

InitLocate ==
    /\ MainIdle /\ BatIdle /\ DecIdle /\ EvIdle
    /\ locOut = LocateStart
    /\ \E t \in LocTables, present \in SUBSET DeviceIds :
          \E canOpen \in SUBSET present :
              locIn = [table |-> t, present |-> present, canOpen |-> canOpen]

CallLocate ==
    /\ locOut.kind = "Scanning"
    /\ locOut' = open_first_mouse(locIn.table, device_list(locIn.present),
                                  locIn.canOpen)
    /\ UNCHANGED <<mainVars, locIn, batIn, batOut, data, decoded, evIn, evOut>>

NextLocate == CallLocate

SpecLocate == InitLocate /\ [][NextLocate]_vars

(***************************************************************************)
(* battery_status_from_response on its own: every report byte.             *)
(***************************************************************************)
InitDecode ==
    /\ MainIdle /\ LocIdle /\ BatIdle /\ EvIdle
    /\ data \in 0..255
    /\ decoded = NotDecoded

CallDecode ==
    /\ ~decoded.done
    /\ decoded' = [done |-> TRUE, status |-> battery_status_from_response(data)]
    /\ UNCHANGED <<mainVars, locIn, locOut, batIn, batOut, data, evIn, evOut>>

NextDecode == CallDecode

SpecDecode == InitDecode /\ [][NextDecode]_vars

(***************************************************************************)
(* Mouse::battery on its own: both drivers, every outcome of the write and *)
(* of the read.                                                            *)
(***************************************************************************)
AllReads ==
    {ReadErr} \cup { ReadOk(n, b) : n \in 0..OP_BATTERY_RESPONSE_LEN,
                                     b \in {0, 1, 14, 21, 22, 127, 128, 142, 255} }

InitBattery ==
    /\ MainIdle /\ LocIdle /\ DecIdle /\ EvIdle
    /\ batOut = NoBatOut
    /\ \E v \in SupportedModels, w \in WriteOutcomes, r \in AllReads :
          batIn = [variant |-> v, w |-> w, r |-> r]

CallBattery ==
    /\ batOut.kind = ""
    /\ batOut' = battery(batIn.variant, batIn.w, batIn.r)
    /\ UNCHANGED <<mainVars, locIn, locOut, batIn, data, decoded, evIn, evOut>>

NextBattery == CallBattery

SpecBattery == InitBattery /\ [][NextBattery]_vars

(***************************************************************************)
(* process_udev_event on its own: events of every type, with attributes    *)
(* that are absent, not UTF-8, of the wrong length, not hex, or the hex of *)
(* an identifier in either case; tables of every endpoint.                 *)
(***************************************************************************)
\* an attribute with the identifier it spells (-1 when it spells none)
Spelt(attr, id) == [attr |-> attr, id |-> id]

VendorAttrs ==
    { Spelt(AttrMissing, -1), Spelt(AttrNotUtf8, -1),
      Spelt(AttrStr(<<"1", "0", "3">>), -1),
      Spelt(AttrStr(<<"1", "0", "g", "8">>), -1),
      Spelt(AttrStr(<<"0", "1", "0", "3", "8">>), -1),
      Spelt(AttrStr(SysfsId(4152)), 4152),
      Spelt(AttrStr(SysfsId(1133)), 1133),
      Spelt(AttrStr(<<"0", "4", "6", "D">>), 1133) }

ProductAttrs ==
    { Spelt(AttrMissing, -1), Spelt(AttrNotUtf8, -1),
      Spelt(AttrStr(<<>>), -1),
      Spelt(AttrStr(<<"1", "8", "3", "x">>), -1),
      Spelt(AttrStr(SysfsId(6198)), 6198),
      Spelt(AttrStr(SysfsId(6202)), 6202),
      Spelt(AttrStr(<<"1", "8", "3", "A">>), 6202) }

EventTypes == {"add", "bind", "unbind"}

EvProfiles ==
    { Profile("mouse", WIRED, v, p, e) :
        v \in {4152, 1133}, p \in {6198, 6202}, e \in {0, 3} }

EvTables == TablesOver(EvProfiles, MaxTable)

InitEvent ==
    /\ MainIdle /\ LocIdle /\ BatIdle /\ DecIdle
    /\ evOut = NoEvOut
    /\ \E type \in EventTypes, v \in VendorAttrs, p \in ProductAttrs, t \in EvTables :
          evIn = [event |-> UdevEvent(type, v.attr, p.attr), table |-> t,
                  vendor |-> v.id, product |-> p.id]

CallEvent ==
    /\ evOut.err = "pending"
    /\ evOut' = process_udev_event(evIn.event, evIn.table)
    /\ UNCHANGED <<mainVars, locIn, locOut, batIn, batOut, data, decoded, evIn>>

NextEvent == CallEvent

SpecEvent == InitEvent /\ [][NextEvent]_vars

(***************************************************************************)
(* Properties of the main loop.                                            *)
(***************************************************************************)
HasLog(level, msg) ==
    \E i \in 1..Len(logged) : logged[i].level = level /\ logged[i].msg = msg

HasLogAbout(level, msg, about) ==
    \E i \in 1..Len(logged) :
        logged[i].level = level /\ logged[i].msg = msg /\ logged[i].about = about

ConnectionError == poll.called /\ (poll.w = "err" \/ poll.r.kind = "err")

AbsentReading ==
    poll.called /\ poll.w = "ok" /\ poll.r.kind = "ok" /\ ~poll.res.status.some

PrintedReading ==
    /\ last = "PollTick"
    /\ pc = "Poll"
    /\ Len(stdout) = 1
    /\ ~stdout[1].blank

HexChars ==
    {"0", "1", "2", "3", "4", "5", "6", "7", "8", "9",
     "a", "b", "c", "d", "e", "f", "A", "B", "C", "D", "E", "F"}

\* the attribute is present, is text and is four hex digits
SpellsId(attr) ==
    /\ attr.kind = "str"
    /\ Len(attr.s) = 4
    /\ \A i \in 1..Len(attr.s) : attr.s[i] \in HexChars

\* the item the monitor yields next is a Bind event with a missing or
\* malformed idVendor or idProduct
MalformedBindNext ==
    /\ queue # <<>>
    /\ Head(queue).ok
    /\ Head(queue).event.type = "bind"
    /\ ~(SpellsId(Head(queue).event.idVendor) /\ SpellsId(Head(queue).event.idProduct))

\* C1 as stated: when the timeout expires in Watch the wait is re-armed and
\* the loop is still in Watch, its subscription alive; it has not gone to Locate.
C1_TimeoutStaysInWatch ==
    last = "WatchTimeout" => pc = "Watch" /\ monitor /\ sleep = "interval"

\* C1 amended: the timeout ends the wait: the subscription is dropped, the
\* sleep is left completed and the loop is at Locate; an item of the monitor
\* takes the loop to Locate exactly when it is a relevant attach event, and
\* leaves it listening in Watch otherwise.
C1_TimeoutReturnsToLocate ==
    /\ last = "WatchTimeout" => pc = "Locate" /\ ~monitor /\ sleep = "fired"
    /\ last = "WatchEvent" =>
          IF HasLog("info", "Device has been connected")
          THEN pc = "Locate" /\ ~monitor
          ELSE pc = "Watch" /\ monitor

C1_Witness == last = "WatchTimeout" /\ pc = "Locate" /\ attached # {}

\* C4: a poll whose write or read failed has ended Poll: the error is logged,
\* one blank line is printed, the driver is gone and the loop is in Watch.
C4_PollErrorEndsPoll ==
    (last = "PollTick" /\ ConnectionError) =>
        /\ poll.res.kind = "Err"
        /\ pc = "Watch"
        /\ mouse = NoMouse
        /\ stdout = <<BlankLine>>
        /\ HasLog("error", "Error reading battery status")

C4_Witness ==
    /\ last = "PollTick"
    /\ poll.called /\ poll.w = "ok" /\ poll.r.kind = "err"
    /\ pc = "Watch"

\* C5: a poll that returns Absent logs the retry warning, re-arms the sleep
\* for one interval, keeps the driver it polled and stays in Poll.
C5_AbsentStaysInPoll ==
    [][(PollTick /\ AbsentReading') =>
          /\ pc' = "Poll"
          /\ mouse' = mouse
          /\ mouse' # NoMouse
          /\ sleep' = "interval"
          /\ stdout' = <<>>
          /\ logged' = <<Log("warn", "Error in response, will try again", "")>>]_vars

C5_Witness ==
    /\ last = "PollTick"
    /\ poll.called /\ poll.w = "ok" /\ poll.r = ReadOk(2, 255)
    /\ poll.res.kind = "Ok" /\ ~poll.res.status.some
    /\ pc = "Poll"

\* C6 as stated: once one device with a supported profile stays attached,
\* opens and answers every query with a reading, and initialisation never
\* fails, the loop eventually is in Poll and has printed a reading.
C6_OneGoodDeviceLeadsToReading ==
    (settled.mode = "device") ~> PrintedReading

\* C6 amended: once the attached devices no longer change, some profile
\* matches one of them, every device a profile matches has a supported model,
\* opens and answers every query with a reading, and initialisation never
\* fails, the loop eventually is in Poll and has printed a reading.
C6_SettledLeadsToReading ==
    (settled.mode = "all") ~> PrintedReading

C6_Witness == settled.mode = "all" /\ PrintedReading

\* C7: main returns only from the configuration load, from HidApi::new or
\* from building the monitor; a step that polled, handled an event, timed
\* out or ran open_first_mouse never ends the process, and while the loop
\* runs one of its steps is always possible.
C7_OnlyStartupErrorsExit ==
    /\ pc = "Exit" =>
          \/ last = "LoadConfig" /\ exitErr \in {"OpenConfig", "ParseConfig"}
          \/ last = "Locate" /\ exitErr = "InitializeHidApi" /\ logged = <<>>
          \/ last = "WatchSubscribe"
                /\ exitErr \in {"UdevBuildMonitor", "UdevListen", "UdevAsync"}
    /\ pc \in {"Start", "Locate", "Poll", "Watch", "Exit"}
    /\ HasLog("error", "Error opening first mouse") => pc = "Watch"
    /\ last \in {"PollTick", "WatchEvent", "WatchTimeout"} => pc # "Exit"
    /\ pc \in {"Locate", "Poll", "Watch"} =>
          ENABLED (Locate \/ PollTick \/ WatchSubscribe \/ WatchTimeout)

C7_Witness ==
    /\ last = "Locate"
    /\ pc = "Watch"
    /\ HasLogAbout("error", "Error opening first mouse", "OpenMouse")

\* C8 as stated: with a profile of an unsupported model in the configuration
\* the start fails: the loop is never at Locate, Poll or Watch.
C8_UnknownModelFailsAtStartup ==
    (\E i \in 1..Len(rawConfig.entries) :
        rawConfig.entries[i].model \notin {WIRED, WIRELESS})
    => pc \in {"Start", "Exit"}

\* C8 amended: a configuration whose identifiers are well-formed hex is
\* loaded whatever its model names are, and the loop starts at Locate; an
\* unsupported model name is reported by open_first_mouse as WrapMouse, after
\* which the loop is in Watch.
C8_UnknownModelSurfacesInLocate ==
    /\ (last = "LoadConfig" /\ rawConfig.readable
          /\ \A i \in 1..Len(rawConfig.entries) :
                /\ deserialize_id(rawConfig.entries[i].vendor).ok
                /\ deserialize_id(rawConfig.entries[i].product).ok)
       => pc = "Locate" /\ Len(cfg) = Len(rawConfig.entries)
    /\ HasLogAbout("error", "Error opening first mouse", "WrapMouse")
       => /\ pc = "Watch"
          /\ \E i \in 1..Len(cfg) : cfg[i].model \notin {WIRED, WIRELESS}

C8_Witness ==
    /\ last = "Locate"
    /\ pc = "Watch"
    /\ HasLogAbout("error", "Error opening first mouse", "WrapMouse")

\* C9: a poll whose write succeeded and whose read timed out returns a
\* connection-level error and the loop leaves Poll for Watch.
C9_ReadTimeoutIsConnectionError ==
    (last = "PollTick" /\ poll.called /\ poll.w = "ok" /\ poll.r = ReadTimeout)
    => poll.res.kind = "Err" /\ pc = "Watch"

(***************************************************************************)
(* Properties of open_first_mouse.                                         *)
(***************************************************************************)
Located == locOut.kind # "Scanning"

\* device d and profile p agree on vendor id, product id and interface number
SameIdentity(d, p) ==
    /\ DeviceInfo(d).vendor = p.vendor
    /\ DeviceInfo(d).product = p.product
    /\ DeviceInfo(d).iface = p.endpoint

\* positions of the profiles that agree with an enumerated device
MatchingProfiles ==
    { i \in 1..Len(locIn.table) :
        \E d \in locIn.present : SameIdentity(d, locIn.table[i]) }

\* the device enumerated first among those profile i agrees with
DeviceOf(i) ==
    CHOOSE d \in locIn.present :
        /\ SameIdentity(d, locIn.table[i])
        /\ \A e \in locIn.present : SameIdentity(e, locIn.table[i]) => d <= e

FirstMatching ==
    CHOOSE i \in MatchingProfiles : \A k \in MatchingProfiles : i <= k

\* C2: when several profiles match enumerated devices and the device of the
\* first of them opens into a driver, open_first_mouse opens that device
\* only, scans no later profile and returns that profile's driver.
C2_FirstMatchingProfileWins ==
    (/\ Located
     /\ Cardinality(MatchingProfiles) >= 2
     /\ DeviceOf(FirstMatching) \in locIn.canOpen
     /\ locIn.table[FirstMatching].model \in {WIRED, WIRELESS})
    => /\ locOut.kind = "Ok"
       /\ locOut.mouse.name = locIn.table[FirstMatching].name
       /\ locOut.mouse.dev = DeviceOf(FirstMatching)
       /\ locOut.opens = <<DeviceOf(FirstMatching)>>
       /\ Len(locOut.scanned) = FirstMatching

\* C10 as stated: the result is NotFound exactly when no profile agrees with
\* an enumerated device, and when exactly one profile does and its device
\* opens, the result is that profile's driver.
C10_NotFoundIffNoMatch ==
    Located =>
        /\ locOut.kind = "NotFound" <=> MatchingProfiles = {}
        /\ \A b \in 1..Len(locIn.table) :
              (MatchingProfiles = {b} /\ DeviceOf(b) \in locIn.canOpen)
              => /\ locOut.kind = "Ok"
                 /\ locOut.mouse.name = locIn.table[b].name
                 /\ locOut.mouse.dev = DeviceOf(b)

\* C10 amended: the result is NotFound exactly when no profile agrees with
\* an enumerated device; when exactly one profile does and its device opens,
\* the result is that profile's driver if the profile's model is supported,
\* and WrapMouse if it is not.
C10_NotFoundIffNoMatchSupported ==
    Located =>
        /\ locOut.kind = "NotFound" <=> MatchingProfiles = {}
        /\ \A b \in 1..Len(locIn.table) :
              (MatchingProfiles = {b} /\ DeviceOf(b) \in locIn.canOpen)
              => IF locIn.table[b].model \in {WIRED, WIRELESS}
                 THEN /\ locOut.kind = "Ok"
                      /\ locOut.mouse.name = locIn.table[b].name
                      /\ locOut.mouse.dev = DeviceOf(b)
                 ELSE locOut.kind = "WrapMouse"

C10_Witness ==
    /\ Located
    /\ Len(locIn.table) = 2
    /\ MatchingProfiles = {2}
    /\ Cardinality(locIn.present) = 2
    /\ locOut.kind = "Ok"
    /\ locOut.mouse.name = locIn.table[2].name

(***************************************************************************)
(* Properties of battery_status_from_response.                             *)
(***************************************************************************)
\* C3: every report byte decodes to Absent or to a reading whose percent is
\* one of 0, 5, ..., 100 and whose charging flag is bit 7 of the byte.
C3_DecodeWithinRange ==
    (decoded.done /\ decoded.status.some) =>
        /\ decoded.status.percent \in { 5 * k : k \in 0..20 }
        /\ decoded.status.is_charging = (data >= 128)

\* C11: a failed open_device ends open_first_mouse at once: it is the last
\* open attempted, the profile it was made for is the last one scanned and
\* the result is OpenMouse, not NotFound; in particular when the device of
\* the first matching profile cannot be opened, nothing else is opened.
C11_OpenFailureReturnsAtOnce ==
    Located =>
        /\ \A k \in 1..Len(locOut.opens) :
              locOut.opens[k] \notin locIn.canOpen
              => k = Len(locOut.opens) /\ locOut.kind = "OpenMouse"
        /\ locOut.kind = "OpenMouse" =>
              /\ locOut.opens # <<>>
              /\ locOut.opens[Len(locOut.opens)] \notin locIn.canOpen
              /\ locOut.scanned # <<>>
              /\ SameIdentity(locOut.opens[Len(locOut.opens)],
                              locIn.table[Len(locOut.scanned)])
              /\ locOut.mouse = NoMouse
        /\ (MatchingProfiles # {} /\ DeviceOf(FirstMatching) \notin locIn.canOpen)
           => /\ locOut.kind = "OpenMouse"
              /\ locOut.opens = <<DeviceOf(FirstMatching)>>
              /\ Len(locOut.scanned) = FirstMatching

C11_Witness ==
    /\ Located
    /\ locOut.kind = "OpenMouse"
    /\ Len(locIn.table) = 2
    /\ Len(locOut.scanned) = 1
    /\ 2 \in MatchingProfiles
    /\ DeviceOf(2) \in locIn.canOpen

(***************************************************************************)
(* Properties of process_udev_event.                                       *)
(***************************************************************************)
Processed == evOut.err # "pending"

\* C12: a Bind event whose idVendor and idProduct spell identifiers is
\* answered Ok(true) exactly when some profile has that vendor and that
\* product, whatever the endpoints of the profiles are.
C12_RelevantIffVendorAndProduct ==
    (Processed /\ evIn.event.type = "bind" /\ evIn.vendor >= 0 /\ evIn.product >= 0)
    => /\ evOut.ok
       /\ evOut.relevant <=>
             \E i \in 1..Len(evIn.table) :
                 /\ evIn.table[i].vendor = evIn.vendor
                 /\ evIn.table[i].product = evIn.product

C12_Witness ==
    /\ Processed
    /\ evIn.event.type = "bind"
    /\ evIn.event.idVendor = AttrStr(<<"0", "4", "6", "D">>)
    /\ evIn.product = 6202
    /\ Len(evIn.table) = 2
    /\ evIn.table[1].vendor = 1133 /\ evIn.table[1].product = 6198
    /\ evIn.table[2].vendor = 1133 /\ evIn.table[2].product = 6202
    /\ evIn.table[2].endpoint = 3
    /\ evOut.relevant

\* C13: a Bind event with a missing or malformed idVendor or idProduct is
\* answered with an error and never counts as a match: the loop logs the
\* error, takes the event off the monitor, keeps the monitor and stays in
\* Watch.
C13_MalformedEventAbsorbed ==
    [][(WatchEvent /\ MalformedBindNext) =>
          /\ pc' = "Watch"
          /\ monitor'
          /\ queue' = Tail(queue)
          /\ Len(logged') = 1
          /\ logged'[1].level = "error"
          /\ logged'[1].msg = "Unexpected error handling udev event"
          /\ logged'[1].about \in {"MissingVendor", "InvalidVendor",
                                   "MissingProduct", "InvalidProduct"}
          /\ stdout' = <<>>
          /\ exitErr' = ""]_vars

C13_Witness ==
    /\ last = "WatchEvent"
    /\ HasLogAbout("error", "Unexpected error handling udev event", "InvalidProduct")
    /\ pc = "Watch"
    /\ monitor

\* C14: an event of any type other than Bind, whatever its attributes, is
\* answered Ok(false): the loop logs nothing, prints nothing, keeps the
\* monitor and stays in Watch.
C14_OtherEventTypesIgnored ==
    (last = "WatchEvent" /\ handled.ok /\ handled.event.type # "bind") =>
        /\ pc = "Watch"
        /\ monitor
        /\ logged = <<>>
        /\ stdout = <<>>
        /\ exitErr = ""

C14_Witness ==
    /\ last = "WatchEvent"
    /\ handled.ok
    /\ handled.event.type = "unbind"
    /\ handled.event.idVendor = AttrMissing
    /\ pc = "Watch"
    /\ monitor

\* C15 as stated: a poll whose query returned Ok, with a reading or without,
\* has written exactly one line to standard output and re-armed the sleep.
C15_EveryOkPollPrintsOneLine ==
    (last = "PollTick" /\ poll.called /\ poll.res.kind = "Ok")
    => Len(stdout) = 1 /\ sleep = "interval"

\* C15 amended: a poll whose query returned a reading has written exactly
\* one line, the status line of that reading, and re-armed the sleep; a poll
\* whose query returned Absent has written nothing to standard output, has
\* logged the retry warning and re-armed the sleep.
C15_OnlyReadingsPrintOneLine ==
    (last = "PollTick" /\ poll.called /\ poll.res.kind = "Ok") =>
        /\ sleep = "interval"
        /\ pc = "Poll"
        /\ IF poll.res.status.some
           THEN stdout = <<[blank |-> FALSE,
                            is_charging |-> poll.res.status.is_charging,
                            percent |-> poll.res.status.percent]>>
           ELSE /\ stdout = <<>>
                /\ HasLog("warn", "Error in response, will try again")

C15_Witness ==
    /\ last = "PollTick"
    /\ poll.called
    /\ poll.r = ReadOk(2, 150)
    /\ poll.res.kind = "Ok"
    /\ poll.res.status.some
    /\ Len(stdout) = 1
    /\ stdout[1].is_charging

\* C16: the decoder answers Absent exactly for the bytes whose low seven bits
\* are 0 or 127 (0x00, 0x80, 0x7F, 0xFF); for every other byte it answers a
\* reading whose percent is five times the low seven bits less one, whatever
\* bit 7 is.
C16_AbsentExactlyForZeroAndAllOnes ==
    decoded.done =>
        /\ (~decoded.status.some) <=> (data \in {0, 128, 127, 255})
        /\ (~decoded.status.some) <=> ((data % 128) = 0 \/ (data % 128) = 127)
        /\ decoded.status.some =>
              /\ decoded.status.percent = ((data % 128) - 1) * 5
              /\ decoded.status.is_charging = (data >= 128)

C16_Witness ==
    /\ decoded.done
    /\ data = 254
    /\ decoded.status.some
    /\ decoded.status.percent = 625

\* C17: open_first_mouse never holds more than one open device at a time,
\* and when it succeeds it has opened exactly one device.
C17_AtMostOneHandleOpen ==
    Located =>
        /\ locOut.held <= 1
        /\ locOut.kind = "Ok" => Len(locOut.opens) = 1

(***************************************************************************)
(* Properties of Mouse::battery.                                           *)
(***************************************************************************)
Queried == batOut.kind # ""

\* the byte the decoder is given: the second byte of the buffer, which the
\* read overwrote only if it filled both bytes
SecondByte == IF batIn.r.n >= 2 THEN batIn.r.bytes[2] ELSE 0

\* C18: a query writes the request, then reads, then decodes the second
\* byte of the response.  A failed write is returned without a read, a
\* failed read is returned without a decode, and a reading or Absent is
\* returned only after both succeeded.  The request is report 0 with opcode
\* 0x92, with 0x40 or-ed in by the wireless driver; the decoding is the same
\* for both drivers.
C18_WriteReadDecodeInOrder ==
    Queried =>
        /\ batOut.request =
              IF batIn.variant = WIRELESS THEN <<0, 210>> ELSE <<0, 146>>
        /\ batIn.w = "err" =>
              /\ batOut.kind = "Err" /\ batOut.err = "write"
              /\ ~batOut.didRead /\ ~batOut.didDecode
              /\ ~batOut.status.some
        /\ (batIn.w = "ok" /\ batIn.r.kind = "err") =>
              /\ batOut.kind = "Err" /\ batOut.err = "read"
              /\ batOut.didRead /\ ~batOut.didDecode
              /\ ~batOut.status.some
        /\ (batIn.w = "ok" /\ batIn.r.kind = "ok") =>
              /\ batOut.kind = "Ok"
              /\ batOut.didRead /\ batOut.didDecode
              /\ batOut.status = battery_status_from_response(SecondByte)
        /\ batOut.kind = "Ok" => batIn.w = "ok" /\ batIn.r.kind = "ok"

C18_Witness ==
    /\ Queried
    /\ batIn.variant = WIRELESS
    /\ batIn.w = "err"
    /\ batIn.r = ReadOk(2, 14)
    /\ batOut.kind = "Err"
    /\ batOut.request = <<0, 210>>

(***************************************************************************)
(* Properties of the resources and the output of the main loop.            *)
(***************************************************************************)
HandleOpen == mouse # NoMouse

\* C19: a device handle and a udev monitor never exist together: a handle is
\* held only in Poll, a monitor only in Watch, and a step that ends Poll, a
\* failed Locate or the udev wait has released what it held.
C19_HandleAndMonitorNeverTogether ==
    /\ ~(HandleOpen /\ monitor)
    /\ HandleOpen => pc = "Poll"
    /\ monitor => pc = "Watch"
    /\ pc \in {"Start", "Locate", "Exit"} => ~HandleOpen /\ ~monitor /\ queue = <<>>

C19_Witness ==
    /\ last = "PollTick"
    /\ poll.called
    /\ poll.res.kind = "Err"
    /\ pc = "Watch"
    /\ ~HandleOpen
    /\ ~monitor

ProgramStep ==
    LoadConfig \/ Locate \/ PollTick \/ WatchSubscribe \/ WatchTimeout \/ WatchEvent

BlankLines(out) == Cardinality({i \in 1..Len(out) : out[i].blank})

\* C20: a step of the program writes one blank line to standard output if
\* it takes the loop into Watch from elsewhere and none otherwise; the loop is
\* taken into Watch only by a poll whose query returned an error or by a
\* Locate that failed.
C20_BlankLineOncePerEntryToWatch ==
    [][ProgramStep =>
          /\ BlankLines(stdout') = IF pc # "Watch" /\ pc' = "Watch" THEN 1 ELSE 0
          /\ (pc # "Watch" /\ pc' = "Watch") =>
                \/ pc = "Poll" /\ poll'.called /\ poll'.res.kind = "Err"
                \/ /\ pc = "Locate"
                   /\ \E i \in 1..Len(logged') :
                         /\ logged'[i].level = "error"
                         /\ logged'[i].msg = "Error opening first mouse"
          /\ (pc = "Poll" /\ poll'.res.kind = "Err") => pc' = "Watch"]_vars

C20_Witness ==
    /\ last = "Locate"
    /\ pc = "Watch"
    /\ HasLogAbout("error", "Error opening first mouse", "NotFound")
    /\ stdout = <<BlankLine>>
    /\ ~monitor

====
